---------------------------- MODULE Spec2Model ----------------------------
(***************************************************************************)
(* A model of the at-cryptoauth driver core: the one-shot provisioning     *)
(* lifecycle of TrustAndGo (src/src/tngtls.rs), the typed command          *)
(* constructors, result types and timing tables of the command set         *)
(* (src/src/command.rs) and the decoders of the provisioning words         *)
(* (src/slot-config-helper.rs).                                            *)
(*                                                                         *)
(* Three specifications share the variables:                               *)
(*   Spec     the provisioning lifecycle run against a device over a       *)
(*            transport whose transactions may fail;                       *)
(*   CmdSpec  the command constructors applied to bounded inputs;          *)
(*   FnSpec   the pure functions (timing, decoding, addressing, parsing)   *)
(*            applied to bounded inputs.                                   *)
(***************************************************************************)
EXTENDS Integers, Sequences, FiniteSets, TLC

VARIABLES
    dev,      \* the device: the lock flag of each zone
    rep,      \* the client: the lock status each zone last reported
    bus,      \* transport transactions issued by the last operation, in order
    op,       \* the last lifecycle operation called
    result,   \* its result: "Ok" or "Err"
    pre,      \* the device's lock flags when the last operation was called
    prev,     \* the operation before the last one: [op, result, bus]
    tng,      \* TRUE while a TrustAndGo object exists (try_from returned Ok)
    release,  \* TRUE for a release build (cfg(not(debug_assertions)))
    inits,    \* number of try_from invocations so far
    call,     \* the last constructor or function called, with its arguments
    ret       \* its result: [kind, ...]

lifeVars == <<dev, rep, bus, op, result, pre, prev, tng, release, inits>>
cmdVars == <<call, ret>>
vars == <<dev, rep, bus, op, result, pre, prev, tng, release, inits, call, ret>>

(***************************************************************************)
(* Bounds of the model.                                                    *)
(***************************************************************************)
\* try_from invocations in one behaviour
MaxInits == 3
\* the longest payload handed to Sha.update
MaxShaLen == 66
\* the longest payload handed to Aes.encrypt / Aes.decrypt
MaxAesLen == 18
\* the most blocks a slot holds, and one block beyond the last
MaxBlocks == 3

(***************************************************************************)
(* Memory model: zones, sizes, addresses.                                  *)
(***************************************************************************)
Zones == {"Config", "Data"}

\* Size::Word as usize: TNG_TLS_CHIP_OPTIONS is a [u8; Size::Word as usize] of 4 bytes
SizeWord == 4
\* Size::Block as usize: the two tables are [u8; Size::Block as usize] of 32 bytes
SizeBlock == 32

SizeLen(size) == IF size = "Word" THEN SizeWord ELSE SizeBlock

\* Memory::SLOT_CONFIG_INDEX, CHIP_OPTIONS_INDEX, KEY_CONFIG_INDEX
SLOT_CONFIG_INDEX == 20
CHIP_OPTIONS_INDEX == 88
KEY_CONFIG_INDEX == 96

\* locate_index dividing by a block of 16 bytes
locate_index_block16(index) ==
    [block    |-> index \div 16,
     offset   |-> (index % 16) \div SizeWord,
     position |-> index % SizeWord]

\* Zone::locate_index: a Config-zone byte index as (block, word offset, byte position)
locate_index(index) ==
    [block    |-> index \div SizeBlock,
     offset   |-> (index % SizeBlock) \div SizeWord,
     position |-> index % SizeWord]

(***************************************************************************)
(* The provisioning tables of TrustAndGo.                                  *)
(***************************************************************************)
TNG_TLS_SLOT_CONFIG_DATA ==
    << \h85, \h00,
       \h82, \h00,
       \h85, \h20, \h85, \h20, \h85, \h20,
       \h8f, \h8f,
       \h8f, \h0f,
       \haf, \h8f,
       \h0f, \h0f,
       \h8f, \h0f,
       \h0f, \h8f,
       \h0f, \h8f,
       \h0f, \h8f,
       \h00, \h00, \h00, \h00, \haf, \h8f >>

TNG_TLS_CHIP_OPTIONS == << \hff, \hff, \h60, \h0e >>

TNG_TLS_KEY_CONFIG_DATA ==
    << \h53, \h00,
       \h53, \h00,
       \h73, \h00, \h73, \h00, \h73, \h00,
       \h1c, \h00,
       \h7c, \h00,
       \h3c, \h00,
       \h3c, \h00,
       \h1a, \h00,
       \h1c, \h00,
       \h10, \h00,
       \h1c, \h00,
       \h3c, \h00, \h3c, \h00, \h1c, \h00 >>

\* slice.chunks(n): the i-th chunk (0-based) of a sequence
Chunk(data, n, i) ==
    SubSeq(data, i * n + 1, IF (i + 1) * n < Len(data) THEN (i + 1) * n ELSE Len(data))

\* the number of chunks slice.chunks(n) yields
NumChunks(data, n) == (Len(data) + n - 1) \div n

(***************************************************************************)
(* The transport and the device behind it.  One transaction is one command *)
(* sent and its response read.  In an operation, the transaction numbered  *)
(* failAt fails (0: none does); applied tells whether the device had       *)
(* executed the command before the failure (the response was lost) or not  *)
(* (the command never arrived).                                            *)
(***************************************************************************)
Cmd(o, zone, size, block, offset, data) ==
    [op |-> o, zone |-> zone, size |-> size, block |-> block, offset |-> offset, data |-> data]

\* the commands that carry no address and no data
IsLockedCmd(zone) == Cmd("IsLocked", zone, "Word", 0, 0, <<>>)
LockCmd(zone) == Cmd("Lock", zone, "Word", 0, 0, <<>>)

\* the device rejects a write to a locked zone and a lock of a locked zone
DevAccepts(d, cmd) ==
    CASE cmd.op = "Write" -> ~d[cmd.zone]
      [] cmd.op = "Lock"  -> ~d[cmd.zone]
      [] OTHER            -> TRUE

\* a device whose lock flag is not latched: any other accepted command clears it
DevAfter_unlatched(d, cmd) ==
    IF cmd.op = "Lock" THEN [d EXCEPT ![cmd.zone] = TRUE] ELSE [d EXCEPT ![cmd.zone] = FALSE]

\* the device state after it executed an accepted command
DevAfter(d, cmd) ==
    IF cmd.op = "Lock" THEN [d EXCEPT ![cmd.zone] = TRUE] ELSE d

\* one transaction on the state st of a running operation
Xfer(st, cmd, failAt, applied) ==
    LET n == Len(st.bus) + 1
        accepted == DevAccepts(st.dev, cmd)
        lost == n = failAt
        executed == accepted /\ (~lost \/ applied)
    IN [st EXCEPT !.bus = Append(st.bus, [cmd |-> cmd, ok |-> accepted /\ ~lost]),
                  !.dev = IF executed THEN DevAfter(st.dev, cmd) ELSE st.dev,
                  !.err = lost \/ ~accepted,
                  !.ans = IF cmd.op = "IsLocked" THEN st.dev[cmd.zone] ELSE FALSE]

(***************************************************************************)
(* Memory: the client's zone operations.                                   *)
(***************************************************************************)
\* Memory::is_locked: ask the device; st.ans holds the answer
is_locked(st, zone, failAt, applied) ==
    LET s1 == Xfer(st, IsLockedCmd(zone), failAt, applied)
    IN IF s1.err THEN s1
       ELSE [s1 EXCEPT !.rep[zone] = IF s1.ans THEN "Locked" ELSE "Unlocked"]

\* write_config without the local check: every write goes to the transport
write_config_unguarded(st, size, block, offset, data, failAt, applied) ==
    Xfer(st, Cmd("Write", "Config", size, block, offset, data), failAt, applied)

\* Memory::write_config: a write to a zone that reports Locked fails locally
write_config(st, size, block, offset, data, failAt, applied) ==
    IF st.rep["Config"] = "Locked"
    THEN [st EXCEPT !.err = TRUE]
    ELSE Xfer(st, Cmd("Write", "Config", size, block, offset, data), failAt, applied)

\* Memory::lock
lock(st, zone, failAt, applied) ==
    LET s1 == Xfer(st, LockCmd(zone), failAt, applied)
    IN IF s1.err THEN s1 ELSE [s1 EXCEPT !.rep[zone] = "Locked"]

(***************************************************************************)
(* TrustAndGo: the configure_* methods and try_from.                       *)
(***************************************************************************)
RECURSIVE PermissionsFrom_unstrided(_, _, _, _)
\* the try_for_each with the index advanced by one byte per chunk, not by a word
PermissionsFrom_unstrided(st, i, failAt, applied) ==
    IF i >= NumChunks(TNG_TLS_SLOT_CONFIG_DATA, SizeLen("Word")) THEN st
    ELSE LET index == SLOT_CONFIG_INDEX + i
             loc == locate_index(index)
             word == Chunk(TNG_TLS_SLOT_CONFIG_DATA, SizeLen("Word"), i)
             s1 == write_config(st, "Word", loc.block, loc.offset, word, failAt, applied)
         IN IF s1.err THEN s1 ELSE PermissionsFrom_unstrided(s1, i + 1, failAt, applied)

RECURSIVE PermissionsFrom(_, _, _, _)
\* the try_for_each of configure_permissions from chunk i on: stops at the first error
PermissionsFrom(st, i, failAt, applied) ==
    IF i >= NumChunks(TNG_TLS_SLOT_CONFIG_DATA, SizeLen("Word")) THEN st
    ELSE LET index == SLOT_CONFIG_INDEX + i * SizeLen("Word")
             loc == locate_index(index)
             word == Chunk(TNG_TLS_SLOT_CONFIG_DATA, SizeLen("Word"), i)
             s1 == write_config(st, "Word", loc.block, loc.offset, word, failAt, applied)
         IN IF s1.err THEN s1 ELSE PermissionsFrom(s1, i + 1, failAt, applied)

configure_permissions(st, failAt, applied) == PermissionsFrom(st, 0, failAt, applied)

configure_chip_options(st, failAt, applied) ==
    LET loc == locate_index(CHIP_OPTIONS_INDEX)
    IN write_config(st, "Word", loc.block, loc.offset, TNG_TLS_CHIP_OPTIONS, failAt, applied)

configure_key_types(st, failAt, applied) ==
    LET loc == locate_index(KEY_CONFIG_INDEX)
    IN write_config(st, "Block", loc.block, loc.offset, TNG_TLS_KEY_CONFIG_DATA, failAt, applied)

\* the provisioning body with the key types written before the chip options
ProvisionConfig_reordered(st, failAt, applied) ==
    LET s1 == configure_permissions(st, failAt, applied)
        s2 == IF s1.err THEN s1 ELSE configure_key_types(s1, failAt, applied)
        s3 == IF s2.err THEN s2 ELSE configure_chip_options(s2, failAt, applied)
    IN IF s3.err THEN s3 ELSE lock(s3, "Config", failAt, applied)

\* the provisioning body with the result of configure_permissions dropped (no `?`)
ProvisionConfig_ignoring(st, failAt, applied) ==
    LET s1 == [configure_permissions(st, failAt, applied) EXCEPT !.err = FALSE]
        s2 == configure_chip_options(s1, failAt, applied)
        s3 == IF s2.err THEN s2 ELSE configure_key_types(s2, failAt, applied)
    IN IF s3.err THEN s3 ELSE lock(s3, "Config", failAt, applied)

\* the provisioning body with the result of the Config lock dropped (no `?`)
ProvisionConfig_lock_unchecked(st, failAt, applied) ==
    LET s1 == configure_permissions(st, failAt, applied)
        s2 == IF s1.err THEN s1 ELSE configure_chip_options(s1, failAt, applied)
        s3 == IF s2.err THEN s2 ELSE configure_key_types(s2, failAt, applied)
    IN IF s3.err THEN s3 ELSE [lock(s3, "Config", failAt, applied) EXCEPT !.err = FALSE]

\* the body of `if !is_locked(Zone::Config)? { ... }`
ProvisionConfig(st, failAt, applied) ==
    LET s1 == configure_permissions(st, failAt, applied)
        s2 == IF s1.err THEN s1 ELSE configure_chip_options(s1, failAt, applied)
        s3 == IF s2.err THEN s2 ELSE configure_key_types(s2, failAt, applied)
    IN IF s3.err THEN s3 ELSE lock(s3, "Config", failAt, applied)

\* the body of `if !is_locked(Zone::Data)? { ... }`: the lock is compiled in release builds only
ProvisionData(st, rel, failAt, applied) ==
    IF rel THEN lock(st, "Data", failAt, applied) ELSE st

\* the Data half of try_from
CheckData(st, rel, failAt, applied) ==
    LET q == is_locked(st, "Data", failAt, applied)
    IN IF q.err THEN q
       ELSE IF ~q.ans THEN ProvisionData(q, rel, failAt, applied)
       ELSE q

\* try_from without the Config lock query: it provisions whatever the zone's state
try_from_unchecked(st, rel, failAt, applied) ==
    LET c == ProvisionConfig(st, failAt, applied)
    IN IF c.err THEN c ELSE CheckData(c, rel, failAt, applied)

\* TrustAndGo::try_from
try_from(st, rel, failAt, applied) ==
    LET q == is_locked(st, "Config", failAt, applied)
        c == IF q.err THEN q
             ELSE IF ~q.ans THEN ProvisionConfig(q, failAt, applied)
             ELSE q
    IN IF c.err THEN c ELSE CheckData(c, rel, failAt, applied)

(***************************************************************************)
(* The lifecycle as a state machine.                                       *)
(***************************************************************************)
\* the most transactions one operation issues: two queries, the writes, two locks
MaxXfer == NumChunks(TNG_TLS_SLOT_CONFIG_DATA, SizeLen("Word")) + 2 + 2 + 2

NoCall == [op |-> "none", slot |-> 0, data |-> <<>>, buf |-> <<>>]
NoRet == [kind |-> "none", buf |-> <<>>, packet |-> <<>>]
NoOp == [op |-> "none", result |-> "none", bus |-> <<>>]

\* the state an operation starts from
Start == [bus |-> <<>>, dev |-> dev, rep |-> rep, err |-> FALSE, ans |-> FALSE]

\* an operation ended in state st
Finish(name, st) ==
    /\ dev' = st.dev
    /\ rep' = st.rep
    /\ bus' = st.bus
    /\ op' = name
    /\ result' = IF st.err THEN "Err" ELSE "Ok"
    /\ pre' = dev
    /\ prev' = [op |-> op, result |-> result, bus |-> bus]

\* Data is lockable on the device only once Config is locked
LifeInit ==
    /\ dev \in {d \in [Zones -> BOOLEAN] : d["Data"] => d["Config"]}
    /\ rep = [z \in Zones |-> "Unknown"]
    /\ bus = <<>>
    /\ op = "none"
    /\ result = "none"
    /\ pre = dev
    /\ prev = NoOp
    /\ tng = FALSE
    /\ release \in BOOLEAN
    /\ inits = 0

Init ==
    /\ LifeInit
    /\ call = NoCall
    /\ ret = NoRet

\* TrustAndGo::try_from(&mut atca); any earlier TrustAndGo has been dropped
TryFrom ==
    /\ inits < MaxInits
    /\ \E failAt \in 0..MaxXfer, applied \in BOOLEAN :
          LET st == try_from(Start, release, failAt, applied)
          IN /\ Finish("try_from", st)
             /\ tng' = ~st.err
    /\ inits' = inits + 1
    /\ UNCHANGED <<release, call, ret>>

\* tng.configure_permissions()
ConfigurePermissions ==
    /\ tng
    /\ \E failAt \in 0..MaxXfer, applied \in BOOLEAN :
          Finish("configure_permissions", configure_permissions(Start, failAt, applied))
    /\ UNCHANGED <<tng, release, inits, call, ret>>

\* tng.configure_chip_options()
ConfigureChipOptions ==
    /\ tng
    /\ \E failAt \in 0..MaxXfer, applied \in BOOLEAN :
          Finish("configure_chip_options", configure_chip_options(Start, failAt, applied))
    /\ UNCHANGED <<tng, release, inits, call, ret>>

\* tng.configure_key_types()
ConfigureKeyTypes ==
    /\ tng
    /\ \E failAt \in 0..MaxXfer, applied \in BOOLEAN :
          Finish("configure_key_types", configure_key_types(Start, failAt, applied))
    /\ UNCHANGED <<tng, release, inits, call, ret>>

Next ==
    \/ TryFrom
    \/ ConfigurePermissions
    \/ ConfigureChipOptions
    \/ ConfigureKeyTypes

Spec == Init /\ [][Next]_vars

(***************************************************************************)
(* The command set (src/src/command.rs).                                   *)
(***************************************************************************)
\* OpCode byte values
OpCode_Read == \h02
OpCode_Sha == \h47
OpCode_Aes == \h51

MODE_ENCRYPT == \h00
MODE_DECRYPT == \h01
MODE_SHA256_START == \h00
MODE_SHA256_UPDATE == \h01
MODE_SHA256_END == \h02

\* the 16 slots, by number
Slots == 0..15

\* Slot::is_private_key: the slots PrivateKey00 .. PrivateKey07
is_private_key(slot) == slot <= 7

\* the caller's buffer in tests::sha: [u8; 0xff]
BufLen == 255

(***************************************************************************)
(* PacketBuilder: the frame is assembled in the caller's buffer.  Rust     *)
(* index i of the buffer is element i + 1 here.  Index 0 holds the word    *)
(* address, index 1 the count, then opcode, param1, param2 (little-endian),*)
(* the data from index 6 on, and the checksum.                             *)
(***************************************************************************)
\* word address of a command packet
WORD_ADDRESS_COMMAND == \h03
\* count of a frame without data: count, opcode, param1, param2 (2), checksum (2)
CMD_SIZE_MIN == 7
\* Rust index of the first data byte
PDU_OFFSET == 6

\* flip the bit of weight p in x
Toggle(x, p) == IF (x \div p) % 2 = 1 THEN x - p ELSE x + p

\* one input bit shifted into the CRC-16 register, polynomial 0x8005
CrcBit(crc, bit) ==
    LET top == crc \div 32768
        sh == (crc * 2) % 65536
    IN IF bit # top THEN Toggle(Toggle(Toggle(sh, 1), 4), 32768) ELSE sh

\* the eight bits of a byte shifted in, least significant first
CrcByte(crc, byte) ==
    LET c1 == CrcBit(crc, byte % 2)
        c2 == CrcBit(c1, (byte \div 2) % 2)
        c3 == CrcBit(c2, (byte \div 4) % 2)
        c4 == CrcBit(c3, (byte \div 8) % 2)
        c5 == CrcBit(c4, (byte \div 16) % 2)
        c6 == CrcBit(c5, (byte \div 32) % 2)
        c7 == CrcBit(c6, (byte \div 64) % 2)
    IN CrcBit(c7, (byte \div 128) % 2)

RECURSIVE CrcFrom(_, _, _)
\* the register after the bytes from the i-th on are shifted into crc
CrcFrom(bytes, i, crc) ==
    IF i > Len(bytes) THEN crc
    ELSE LET next == CrcByte(crc, bytes[i])
         IN IF next < 65536 THEN CrcFrom(bytes, i + 1, next) ELSE next % 65536

\* the 16-bit checksum of a byte sequence
Crc16(bytes) == CrcFrom(bytes, 1, 0)

\* PacketBuilder::new(buffer)
NewBuilder(buf) ==
    [buf |-> buf, opcode |-> 0, mode |-> 0, param2 |-> 0, pdu_length |-> 0]

\* PacketBuilder::pdu_data: copy the data into the buffer and set the length
pdu_data(b, data) ==
    [b EXCEPT !.buf = [i \in 1..Len(b.buf) |->
                          IF i > PDU_OFFSET /\ i <= PDU_OFFSET + Len(data)
                          THEN data[i - PDU_OFFSET] ELSE b.buf[i]],
              !.pdu_length = Len(data)]

\* PacketBuilder::pdu_length: set the length of the data alone
pdu_length(b, n) == [b EXCEPT !.pdu_length = n]

\* the buffer after PacketBuilder::build, and the frame it holds
BuildBuffer(b) ==
    LET count == CMD_SIZE_MIN + b.pdu_length
        header == << count, b.opcode, b.mode, b.param2 % 256, b.param2 \div 256 >>
        body == header \o SubSeq(b.buf, PDU_OFFSET + 1, PDU_OFFSET + b.pdu_length)
        crc == Crc16(body)
        packet == <<WORD_ADDRESS_COMMAND>> \o body \o << crc % 256, crc \div 256 >>
    IN [i \in 1..Len(b.buf) |-> IF i <= Len(packet) THEN packet[i] ELSE b.buf[i]]

\* Ok(packet): the packet as Packet::buffer(buf) shows it, word address first
Built(b) ==
    LET after == BuildBuffer(b)
    IN [kind |-> "Ok", buf |-> after,
        packet |-> SubSeq(after, 1, 1 + CMD_SIZE_MIN + b.pdu_length)]

\* Err(kind): no packet
Failed(kind, buf) == [kind |-> kind, buf |-> buf, packet |-> <<>>]

\* Sha::start built with the mode of Sha::end
Sha_start_end_mode(buf) ==
    Built([NewBuilder(buf) EXCEPT !.opcode = OpCode_Sha, !.mode = MODE_SHA256_END])

\* Sha::start
Sha_start(buf) ==
    Built([NewBuilder(buf) EXCEPT !.opcode = OpCode_Sha, !.mode = MODE_SHA256_START])

\* Sha::update
Sha_update(buf, data) ==
    IF Len(data) >= 64 THEN Failed("BadParam", buf)
    ELSE Built(pdu_data([NewBuilder(buf) EXCEPT !.opcode = OpCode_Sha,
                                                !.mode = MODE_SHA256_UPDATE], data))

\* Sha::end
Sha_end(buf) ==
    Built([NewBuilder(buf) EXCEPT !.opcode = OpCode_Sha, !.mode = MODE_SHA256_END])

\* Aes::encrypt with the size check ahead of the slot check
Aes_encrypt_size_first(buf, slot, plaintext) ==
    IF Len(plaintext) > 16 THEN Failed("InvalidSize", buf)
    ELSE IF ~is_private_key(slot) THEN Failed("BadParam", buf)
    ELSE Built(pdu_length(pdu_data([NewBuilder(buf) EXCEPT !.opcode = OpCode_Aes,
                                                           !.mode = MODE_ENCRYPT,
                                                           !.param2 = slot],
                                   plaintext), 16))

\* Aes::encrypt
Aes_encrypt(buf, slot, plaintext) ==
    IF ~is_private_key(slot) THEN Failed("BadParam", buf)
    ELSE IF Len(plaintext) > 16 THEN Failed("InvalidSize", buf)
    ELSE Built(pdu_length(pdu_data([NewBuilder(buf) EXCEPT !.opcode = OpCode_Aes,
                                                           !.mode = MODE_ENCRYPT,
                                                           !.param2 = slot],
                                   plaintext), 16))

\* Aes::decrypt
Aes_decrypt(buf, slot, ciphertext) ==
    IF ~is_private_key(slot) THEN Failed("BadParam", buf)
    ELSE IF Len(ciphertext) # 16 THEN Failed("InvalidSize", buf)
    ELSE Built(pdu_length(pdu_data([NewBuilder(buf) EXCEPT !.opcode = OpCode_Aes,
                                                           !.mode = MODE_DECRYPT,
                                                           !.param2 = slot],
                                   ciphertext), 16))

\* what a function returning a value returns
Value(v) == [kind |-> "Ok", value |-> v]

\* Err(kind.into())
Err(kind) == [kind |-> kind]

\* the blocks of the Config zone and the words of a block
ConfigBlocks == 4
BlockWords == SizeBlock \div SizeWord

\* Zone::Config.get_addr: the word address of (block, offset), block in the
\* bits above the three bits of the offset
get_addr(block, offset) ==
    IF block >= ConfigBlocks \/ offset >= BlockWords THEN Err("OutOfRange")
    ELSE Value(block * BlockWords + offset)

\* Zone::Data.get_slot_addr: the address of a block of a slot, the slot in
\* the bits above the three bits of the offset and the block in the high
\* byte; blocks is the capacity of the slot in blocks
get_slot_addr(slot, block, blocks) ==
    IF block >= blocks THEN Err("OutOfRange")
    ELSE Value(slot * BlockWords + block * 256)

\* Zone::encode: the zone in the low bits of the mode and the bit of weight
\* 0x80 set for a transfer of a block
Zone_encode(zone, size) ==
    (IF zone = "Config" THEN \h00 ELSE \h02) + (IF size = "Block" THEN \h80 ELSE \h00)

\* Read::slot
Read_slot(buf, slot, block, blocks) ==
    LET addr == get_slot_addr(slot, block, blocks)
    IN IF addr.kind # "Ok" THEN Failed(addr.kind, buf)
       ELSE Built([NewBuilder(buf) EXCEPT !.opcode = OpCode_Read,
                                          !.mode = Zone_encode("Data", "Block"),
                                          !.param2 = addr.value])

\* Read::register
Read_register(buf, zone, size, block, offset) ==
    LET addr == get_addr(block, offset)
    IN IF addr.kind # "Ok" THEN Failed(addr.kind, buf)
       ELSE Built([NewBuilder(buf) EXCEPT !.opcode = OpCode_Read,
                                          !.mode = Zone_encode(zone, size),
                                          !.param2 = addr.value])

(***************************************************************************)
(* The command constructors as a state machine: the initial state draws a *)
(* call (constructor, arguments, buffer) and the action of that            *)
(* constructor runs it.                                                    *)
(***************************************************************************)
\* what a caller's buffer holds before the call: zeroes (as in tests::sha) or stale bytes
BufFills == {\h00, \ha5}
FreshBuf(fill) == [i \in 1..BufLen |-> fill]

\* a payload of the given length
Seeds == {\h10, \hf0}
Payload(len, seed) == [i \in 1..len |-> (seed + i) % 256]

\* the lifecycle at rest
LifeIdle ==
    /\ dev = [z \in Zones |-> FALSE]
    /\ rep = [z \in Zones |-> "Unknown"]
    /\ bus = <<>>
    /\ op = "none"
    /\ result = "none"
    /\ pre = dev
    /\ prev = NoOp
    /\ tng = FALSE
    /\ release = FALSE
    /\ inits = 0

\* a call: the constructor, its arguments and the buffer handed to its builder
Call(name, slot, data, fill) ==
    [op |-> name, slot |-> slot, data |-> data, buf |-> FreshBuf(fill)]

ShaCalls ==
    {Call(name, 0, <<>>, fill) : name \in {"Sha.start", "Sha.end"}, fill \in BufFills}
        \cup {Call("Sha.update", 0, Payload(len, seed), fill) :
                    len \in 0..MaxShaLen, seed \in Seeds, fill \in BufFills}

AesCalls ==
    {Call(name, slot, Payload(len, seed), fill) :
        name \in {"Aes.encrypt", "Aes.decrypt"}, slot \in Slots,
        len \in 0..MaxAesLen, seed \in Seeds, fill \in BufFills}

\* Read::slot on every slot, with a block below and beyond each capacity
ReadSlotCalls ==
    {[op |-> "Read.slot", slot |-> slot, block |-> block, blocks |-> blocks,
      buf |-> FreshBuf(fill)] :
        slot \in Slots, block \in 0..MaxBlocks, blocks \in 1..MaxBlocks, fill \in BufFills}

\* Read::register of the Config zone, with a block and an offset in and out of range
ReadRegisterCalls ==
    {[op |-> "Read.register", zone |-> "Config", size |-> size, block |-> block,
      offset |-> offset, buf |-> FreshBuf(fill)] :
        size \in {"Word", "Block"}, block \in 0..ConfigBlocks,
        offset \in 0..BlockWords, fill \in BufFills}

\* a call is chosen; the constructor has not run yet
CmdInit ==
    /\ LifeIdle
    /\ call \in ShaCalls \cup AesCalls \cup ReadSlotCalls \cup ReadRegisterCalls
    /\ ret = NoRet

ShaStart ==
    /\ call.op = "Sha.start" /\ ret = NoRet
    /\ ret' = Sha_start(call.buf)
    /\ UNCHANGED <<lifeVars, call>>

ShaUpdate ==
    /\ call.op = "Sha.update" /\ ret = NoRet
    /\ ret' = Sha_update(call.buf, call.data)
    /\ UNCHANGED <<lifeVars, call>>

ShaEnd ==
    /\ call.op = "Sha.end" /\ ret = NoRet
    /\ ret' = Sha_end(call.buf)
    /\ UNCHANGED <<lifeVars, call>>

AesEncrypt ==
    /\ call.op = "Aes.encrypt" /\ ret = NoRet
    /\ ret' = Aes_encrypt(call.buf, call.slot, call.data)
    /\ UNCHANGED <<lifeVars, call>>

AesDecrypt ==
    /\ call.op = "Aes.decrypt" /\ ret = NoRet
    /\ ret' = Aes_decrypt(call.buf, call.slot, call.data)
    /\ UNCHANGED <<lifeVars, call>>

ReadSlot ==
    /\ call.op = "Read.slot" /\ ret = NoRet
    /\ ret' = Read_slot(call.buf, call.slot, call.block, call.blocks)
    /\ UNCHANGED <<lifeVars, call>>

ReadRegister ==
    /\ call.op = "Read.register" /\ ret = NoRet
    /\ ret' = Read_register(call.buf, call.zone, call.size, call.block, call.offset)
    /\ UNCHANGED <<lifeVars, call>>

CmdNext ==
    \/ ShaStart
    \/ ShaUpdate
    \/ ShaEnd
    \/ AesEncrypt
    \/ AesDecrypt
    \/ ReadSlot
    \/ ReadRegister

CmdSpec == CmdInit /\ [][CmdNext]_vars

(***************************************************************************)
(* Execution timing (src/src/command.rs): the opcodes, the clock dividers  *)
(* and the per-opcode tables of typical execution times.                   *)
(***************************************************************************)
\* enum OpCode, by variant name
OpCodes ==
    {"CheckMac", "DeriveKey", "Info", "GenDig", "GenKey", "HMac", "Lock", "Mac",
     "Nonce", "Pause", "PrivWrite", "Random", "Read", "Sign", "UpdateExtra",
     "Verify", "Write", "Ecdh", "Counter", "Sha", "Aes", "Kdf", "SecureBoot",
     "SelfTest"}

\* enum ClockDivider as usize: Zero, One, Two
ClockDividers == {0, 1, 2}

EXEC_TIME_AES == << 27, 27, 27 >>
EXEC_TIME_CHECKMAC == << 40, 40, 40 >>
EXEC_TIME_COUNTER == << 25, 25, 25 >>
EXEC_TIME_DERIVE_KEY == << 50, 50, 50 >>
EXEC_TIME_ECDH == << 172, 75, 531 >>
EXEC_TIME_GENDIG == << 35, 25, 35 >>
EXEC_TIME_GENKEY == << 215, 115, 653 >>
EXEC_TIME_INFO == << 5, 5, 5 >>
EXEC_TIME_KDF == << 165, 165, 165 >>
EXEC_TIME_LOCK == << 35, 35, 35 >>
EXEC_TIME_MAC == << 55, 55, 55 >>
EXEC_TIME_NONCE == << 20, 20, 20 >>
EXEC_TIME_PRIVWRITE == << 50, 50, 50 >>
EXEC_TIME_RANDOM == << 23, 23, 23 >>
EXEC_TIME_READ == << 5, 5, 5 >>
EXEC_TIME_SECUREBOOT == << 160, 80, 480 >>
EXEC_TIME_SELFTEST == << 625, 250, 2324 >>
EXEC_TIME_SHA == << 36, 42, 75 >>
EXEC_TIME_SIGN == << 115, 220, 665 >>
EXEC_TIME_UPDATE_EXTRA == << 10, 10, 10 >>
EXEC_TIME_VERIFY == << 105, 295, 1085 >>
EXEC_TIME_WRITE == << 45, 45, 45 >>

\* Option<u32>
Some(v) == [kind |-> "Some", value |-> v]
None == [kind |-> "None"]

\* execution_time with the HMac arm reading the table of Mac
execution_time_hmac_as_mac(opcode, div) ==
    CASE opcode = "CheckMac"    -> Some(EXEC_TIME_CHECKMAC[div + 1])
      [] opcode = "Counter"     -> Some(EXEC_TIME_COUNTER[div + 1])
      [] opcode = "DeriveKey"   -> Some(EXEC_TIME_DERIVE_KEY[div + 1])
      [] opcode = "Ecdh"        -> Some(EXEC_TIME_ECDH[div + 1])
      [] opcode = "GenDig"      -> Some(EXEC_TIME_GENDIG[div + 1])
      [] opcode = "GenKey"      -> Some(EXEC_TIME_GENKEY[div + 1])
      [] opcode = "HMac"        -> Some(EXEC_TIME_MAC[div + 1])
      [] opcode = "Info"        -> Some(EXEC_TIME_INFO[div + 1])
      [] opcode = "Lock"        -> Some(EXEC_TIME_LOCK[div + 1])
      [] opcode = "Mac"         -> Some(EXEC_TIME_MAC[div + 1])
      [] opcode = "Nonce"       -> Some(EXEC_TIME_NONCE[div + 1])
      [] opcode = "PrivWrite"   -> Some(EXEC_TIME_PRIVWRITE[div + 1])
      [] opcode = "Random"      -> Some(EXEC_TIME_RANDOM[div + 1])
      [] opcode = "Read"        -> Some(EXEC_TIME_READ[div + 1])
      [] opcode = "Sign"        -> Some(EXEC_TIME_SIGN[div + 1])
      [] opcode = "UpdateExtra" -> Some(EXEC_TIME_UPDATE_EXTRA[div + 1])
      [] opcode = "Verify"      -> Some(EXEC_TIME_VERIFY[div + 1])
      [] opcode = "Write"       -> Some(EXEC_TIME_WRITE[div + 1])
      [] opcode = "Sha"         -> Some(EXEC_TIME_SHA[div + 1])
      [] opcode = "Aes"         -> Some(EXEC_TIME_AES[div + 1])
      [] opcode = "Kdf"         -> Some(EXEC_TIME_KDF[div + 1])
      [] opcode = "SecureBoot"  -> Some(EXEC_TIME_SECUREBOOT[div + 1])
      [] opcode = "SelfTest"    -> Some(EXEC_TIME_SELFTEST[div + 1])
      [] OTHER                  -> None

\* OpCode::execution_time: the arms of the match in their order; Rust index
\* div is element div + 1 of the table
execution_time(opcode, div) ==
    CASE opcode = "CheckMac"    -> Some(EXEC_TIME_CHECKMAC[div + 1])
      [] opcode = "Counter"     -> Some(EXEC_TIME_COUNTER[div + 1])
      [] opcode = "DeriveKey"   -> Some(EXEC_TIME_DERIVE_KEY[div + 1])
      [] opcode = "Ecdh"        -> Some(EXEC_TIME_ECDH[div + 1])
      [] opcode = "GenDig"      -> Some(EXEC_TIME_GENDIG[div + 1])
      [] opcode = "GenKey"      -> Some(EXEC_TIME_GENKEY[div + 1])
      [] opcode = "Info"        -> Some(EXEC_TIME_INFO[div + 1])
      [] opcode = "Lock"        -> Some(EXEC_TIME_LOCK[div + 1])
      [] opcode = "Mac"         -> Some(EXEC_TIME_MAC[div + 1])
      [] opcode = "Nonce"       -> Some(EXEC_TIME_NONCE[div + 1])
      [] opcode = "PrivWrite"   -> Some(EXEC_TIME_PRIVWRITE[div + 1])
      [] opcode = "Random"      -> Some(EXEC_TIME_RANDOM[div + 1])
      [] opcode = "Read"        -> Some(EXEC_TIME_READ[div + 1])
      [] opcode = "Sign"        -> Some(EXEC_TIME_SIGN[div + 1])
      [] opcode = "UpdateExtra" -> Some(EXEC_TIME_UPDATE_EXTRA[div + 1])
      [] opcode = "Verify"      -> Some(EXEC_TIME_VERIFY[div + 1])
      [] opcode = "Write"       -> Some(EXEC_TIME_WRITE[div + 1])
      [] opcode = "Sha"         -> Some(EXEC_TIME_SHA[div + 1])
      [] opcode = "Aes"         -> Some(EXEC_TIME_AES[div + 1])
      [] opcode = "Kdf"         -> Some(EXEC_TIME_KDF[div + 1])
      [] opcode = "SecureBoot"  -> Some(EXEC_TIME_SECUREBOOT[div + 1])
      [] opcode = "SelfTest"    -> Some(EXEC_TIME_SELFTEST[div + 1])
      [] OTHER                  -> None

(***************************************************************************)
(* The provisioning words decoded: the accessors of tests::Provision       *)
(* (src/src/tngtls.rs) and the decoders of src/slot-config-helper.rs.      *)
(* A u16 is a number below 65536; x >> n is Shr(x, n) and x & (2^k - 1) is *)
(* x % 2^k.                                                                *)
(***************************************************************************)
Shr(x, n) == x \div (2 ^ n)

\* u16::from_le_bytes of a two-byte slice
from_le_bytes(word) == word[1] + 256 * word[2]

\* tests::permission(key_id): the SlotConfig word of a slot
permission(key_id) ==
    LET index == key_id * 2
    IN from_le_bytes(SubSeq(TNG_TLS_SLOT_CONFIG_DATA, index + 1, index + 2))

\* tests::key_config(key_id): the KeyConfig word of a slot
key_config(key_id) ==
    LET index == key_id * 2
    IN from_le_bytes(SubSeq(TNG_TLS_KEY_CONFIG_DATA, index + 1, index + 2))

\* Provision::new
Provision_new(key_id) ==
    [key_id |-> key_id, permission |-> permission(key_id), key_config |-> key_config(key_id)]

Provision_is_private(self) == self.key_config % 2 # 0

\* key_type without the shift: the low three bits of the word
Provision_key_type_unshifted(self) == self.key_config % 8

Provision_key_type(self) == Shr(self.key_config, 2) % 8

Provision_read_key(self) == self.permission % 16

\* encrypt_read without the shift: bit 0 of the word
Provision_encrypt_read_unshifted(self) == self.permission % 2 # 0

Provision_encrypt_read(self) == Shr(self.permission, 6) % 2 # 0

Provision_is_secret(self) == Shr(self.permission, 7) % 2 # 0

\* write_config shifted by 8: the write-key nibble
Provision_write_config_shift8(self) == Shr(self.permission, 8) % 16

Provision_write_config(self) == Shr(self.permission, 12) % 16

Provision_require_nonce(self) == Shr(self.key_config, 6) % 2 # 0

\* a panic with its message
Panic(message) == [kind |-> "Panic", message |-> message]

\* Provision::read_permission: the last arm of the match panics
Provision_read_permission(self) ==
    LET secret == Provision_is_secret(self)
        encrypted == Provision_encrypt_read(self)
    IN CASE ~secret /\ ~encrypted -> Value("Clear text")
         [] secret /\ ~encrypted  -> Value("Never")
         [] secret /\ encrypted   -> Value("Encrypted")
         [] OTHER                 -> Panic("Prohibited")

\* the accessors of a Provision that tests::provision reads, evaluated together
Provision_fields(self) ==
    [is_private    |-> Provision_is_private(self),
     key_type      |-> Provision_key_type(self),
     read_key      |-> Provision_read_key(self),
     encrypt_read  |-> Provision_encrypt_read(self),
     is_secret     |-> Provision_is_secret(self),
     write_config  |-> Provision_write_config(self),
     require_nonce |-> Provision_require_nonce(self)]

(***************************************************************************)
(* src/slot-config-helper.rs, module slot_config.  A decoder is handed the *)
(* word already shifted by print; its result is what it prints.            *)
(***************************************************************************)
SLOT_CONFIG_DATA ==
    << \h85, \h00,
       \h82, \h00,
       \h85, \h20,
       \h85, \h20,
       \h85, \h20,
       \h8f, \h8f,
       \h8f, \h0f,
       \haf, \h8f,
       \h0f, \h0f,
       \h8f, \h0f,
       \h0f, \h8f,
       \h0f, \h8f,
       \h0f, \h8f,
       \h00, \h00,
       \h00, \h00,
       \haf, \h8f >>

\* read_key: the four bits and the lines printed for them; the line of bit 3
\* sits in the else branch of bit 2
slot_config_read_key(slot_config) ==
    [read_key      |-> slot_config % 16,
     external_sign |-> Shr(slot_config, 0) % 2 = 1,
     internal_sign |-> Shr(slot_config, 1) % 2 = 1,
     ecdh          |-> Shr(slot_config, 2) % 2 = 1,
     secret_to_slot |-> Shr(slot_config, 2) % 2 # 1 /\ Shr(slot_config, 3) % 2 = 1]

\* no_mac testing (slot_config >> 1) & 1, as the decoders of key_config do
slot_config_no_mac_shifted(slot_config) == Shr(slot_config, 1) % 2

slot_config_no_mac(slot_config) == slot_config % 2

slot_config_limited_use(slot_config) == slot_config % 2

slot_config_encrypt_read(slot_config) == slot_config % 2

slot_config_is_secret(slot_config) == slot_config % 2

slot_config_write_key(slot_config) == slot_config % 16

slot_config_write_config(slot_config) == slot_config % 16

\* the body of the closure of slot_config::print for one chunk
slot_config_decode(word) ==
    LET slot_config == from_le_bytes(word)
    IN [word         |-> slot_config,
        read_key     |-> slot_config_read_key(Shr(slot_config, 0)),
        no_mac       |-> slot_config_no_mac(Shr(slot_config, 4)),
        limited_use  |-> slot_config_limited_use(Shr(slot_config, 5)),
        encrypt_read |-> slot_config_encrypt_read(Shr(slot_config, 6)),
        is_secret    |-> slot_config_is_secret(Shr(slot_config, 7)),
        write_key    |-> slot_config_write_key(Shr(slot_config, 8)),
        write_config |-> slot_config_write_config(Shr(slot_config, 12))]

\* slot_config::print: one decoded entry per chunk of two bytes, in order
slot_config_print ==
    [i \in 1..NumChunks(SLOT_CONFIG_DATA, 2) |->
        slot_config_decode(Chunk(SLOT_CONFIG_DATA, 2, i - 1))]

(***************************************************************************)
(* src/slot-config-helper.rs, module key_config.                           *)
(***************************************************************************)
KEY_CONFIG_DATA ==
    << \h53, \h00,
       \h53, \h00,
       \h73, \h00,
       \h73, \h00,
       \h73, \h00,
       \h1c, \h00,
       \h7c, \h00,
       \h3c, \h00,
       \h3c, \h00,
       \h1a, \h00,
       \h1c, \h00,
       \h10, \h00,
       \h1c, \h00,
       \h3c, \h00,
       \h3c, \h00,
       \h1c, \h00 >>

\* pub_info: the bit matched together with private
key_config_pub_info(slot_config, private) == Shr(slot_config, 1) % 2

\* private: tests bit 1 of the word it is handed and passes the word shifted by 1 on
key_config_private(slot_config) ==
    IF Shr(slot_config, 1) % 2 = 1
    THEN [private |-> 1, pub_info |-> key_config_pub_info(Shr(slot_config, 1), 1)]
    ELSE [private |-> 0, pub_info |-> key_config_pub_info(Shr(slot_config, 1), 0)]

\* key_type: the value matched (4, 6, 7, anything else is reserved)
key_config_key_type(slot_config) == slot_config % 16

key_config_lockable(slot_config) == Shr(slot_config, 1) % 2

key_config_req_random(slot_config) == Shr(slot_config, 1) % 2

\* auth_key: printed by req_auth only
key_config_auth_key(slot_config) == slot_config % 16

key_config_req_auth(slot_config) ==
    IF Shr(slot_config, 1) % 2 = 1
    THEN [req_auth |-> 1, auth_key |-> Some(key_config_auth_key(slot_config))]
    ELSE [req_auth |-> 0, auth_key |-> None]

key_config_persistent_disable(slot_config) == Shr(slot_config, 1) % 2

key_config_x509id(slot_config) == slot_config % 4

\* the body of the closure of key_config::print for one chunk
key_config_decode(word) ==
    LET kc == from_le_bytes(word)
    IN [word               |-> kc,
        private            |-> key_config_private(Shr(kc, 0)),
        key_type           |-> key_config_key_type(Shr(kc, 2)),
        lockable           |-> key_config_lockable(Shr(kc, 5)),
        req_random         |-> key_config_req_random(Shr(kc, 6)),
        req_auth           |-> key_config_req_auth(Shr(kc, 7)),
        persistent_disable |-> key_config_persistent_disable(Shr(kc, 12)),
        x509id             |-> key_config_x509id(Shr(kc, 14))]

\* key_config::print
key_config_print ==
    [i \in 1..NumChunks(KEY_CONFIG_DATA, 2) |->
        key_config_decode(Chunk(KEY_CONFIG_DATA, 2, i - 1))]

(***************************************************************************)
(* The typed results parsed from a response buffer (src/src/command.rs)    *)
(* and Hasher (src/src/tngtls.rs).                                         *)
(***************************************************************************)
\* Word::try_from(&[u8])
Word_try_from(buffer) ==
    IF Len(buffer) # SizeWord THEN Err("BadParam")
    ELSE Value(SubSeq(buffer, 1, 4))

\* Serial::try_from(&[u8]): a buffer of fewer than 9 bytes passes the length
\* test; &buffer[0..4] panics on fewer than 4 bytes, and copy_from_slice
\* panics on a source of 4 bytes for the destination of 9
Serial_try_from(buffer) ==
    IF Len(buffer) >= 9 THEN Err("BadParam")
    ELSE IF Len(buffer) < 4 THEN Panic("range end index 4 out of range for slice")
    ELSE Panic("source slice length (4) does not match destination slice length (9)")

\* Digest::try_from(&[u8])
Digest_try_from(buffer) ==
    IF Len(buffer) # 32 THEN Err("BadParam")
    ELSE Value(buffer)

\* Hasher::update: inner is what Sha::update of the client returned
Hasher_update(inner) ==
    IF inner.kind = "Ok" THEN Value(<<>>)
    ELSE Panic("update operation failed")

\* Hasher::finalize_into_dirty: inner is what Sha::finalize of the client
\* returned; out receives the digest
Hasher_finalize_into_dirty(inner) ==
    IF inner.kind = "Ok" THEN Value(inner.value)
    ELSE Panic("finalize operation failed")

(***************************************************************************)
(* The pure functions as a state machine: the initial state draws a call   *)
(* and the action of the function called runs it.                          *)
(***************************************************************************)
\* the longest response buffer handed to a typed result
MaxParseLen == 34

\* the byte indices of the Config zone
ConfigIndices == 0..(ConfigBlocks * SizeBlock - 1)

\* the error kinds of ErrorKind that this code names
ErrorKinds == {"BadParam", "InvalidSize"}

TimingCalls ==
    {[op |-> "OpCode.execution_time", opcode |-> o, div |-> d] :
        o \in OpCodes, d \in ClockDividers}

ProvisionCalls ==
    {[op |-> name, key_id |-> s] :
        name \in {"Provision.new", "Provision.read_permission"}, s \in Slots}

PrintCalls == {[op |-> "slot_config.print"], [op |-> "key_config.print"]}

AddressCalls ==
    {[op |-> "Zone.locate_index", index |-> i] : i \in ConfigIndices}
        \cup {[op |-> "Zone.get_addr", block |-> b, offset |-> o] :
                    b \in 0..ConfigBlocks, o \in 0..BlockWords}

ParseCalls ==
    {[op |-> name, buffer |-> Payload(len, seed)] :
        name \in {"Word.try_from", "Serial.try_from", "Digest.try_from"},
        len \in 0..MaxParseLen, seed \in Seeds}

HasherCalls ==
    {[op |-> "Hasher.update", inner |-> r] :
        r \in {Value(<<>>)} \cup {Err(k) : k \in ErrorKinds}}
        \cup {[op |-> "Hasher.finalize_into_dirty", inner |-> r] :
                    r \in {Value(Payload(32, seed)) : seed \in Seeds}
                            \cup {Err(k) : k \in ErrorKinds}}

FnInit ==
    /\ LifeIdle
    /\ call \in TimingCalls \cup ProvisionCalls \cup PrintCalls \cup AddressCalls
                    \cup ParseCalls \cup HasherCalls
    /\ ret = NoRet

ExecutionTime ==
    /\ call.op = "OpCode.execution_time" /\ ret = NoRet
    /\ ret' = execution_time(call.opcode, call.div)
    /\ UNCHANGED <<lifeVars, call>>

ProvisionNew ==
    /\ call.op = "Provision.new" /\ ret = NoRet
    /\ ret' = Value(Provision_fields(Provision_new(call.key_id)))
    /\ UNCHANGED <<lifeVars, call>>

ReadPermission ==
    /\ call.op = "Provision.read_permission" /\ ret = NoRet
    /\ ret' = Provision_read_permission(Provision_new(call.key_id))
    /\ UNCHANGED <<lifeVars, call>>

SlotConfigPrint ==
    /\ call.op = "slot_config.print" /\ ret = NoRet
    /\ ret' = Value(slot_config_print)
    /\ UNCHANGED <<lifeVars, call>>

KeyConfigPrint ==
    /\ call.op = "key_config.print" /\ ret = NoRet
    /\ ret' = Value(key_config_print)
    /\ UNCHANGED <<lifeVars, call>>

LocateIndex ==
    /\ call.op = "Zone.locate_index" /\ ret = NoRet
    /\ ret' = Value(locate_index(call.index))
    /\ UNCHANGED <<lifeVars, call>>

GetAddr ==
    /\ call.op = "Zone.get_addr" /\ ret = NoRet
    /\ ret' = get_addr(call.block, call.offset)
    /\ UNCHANGED <<lifeVars, call>>

WordTryFrom ==
    /\ call.op = "Word.try_from" /\ ret = NoRet
    /\ ret' = Word_try_from(call.buffer)
    /\ UNCHANGED <<lifeVars, call>>

SerialTryFrom ==
    /\ call.op = "Serial.try_from" /\ ret = NoRet
    /\ ret' = Serial_try_from(call.buffer)
    /\ UNCHANGED <<lifeVars, call>>

DigestTryFrom ==
    /\ call.op = "Digest.try_from" /\ ret = NoRet
    /\ ret' = Digest_try_from(call.buffer)
    /\ UNCHANGED <<lifeVars, call>>

HasherUpdate ==
    /\ call.op = "Hasher.update" /\ ret = NoRet
    /\ ret' = Hasher_update(call.inner)
    /\ UNCHANGED <<lifeVars, call>>

HasherFinalize ==
    /\ call.op = "Hasher.finalize_into_dirty" /\ ret = NoRet
    /\ ret' = Hasher_finalize_into_dirty(call.inner)
    /\ UNCHANGED <<lifeVars, call>>

FnNext ==
    \/ ExecutionTime
    \/ ProvisionNew
    \/ ReadPermission
    \/ SlotConfigPrint
    \/ KeyConfigPrint
    \/ LocateIndex
    \/ GetAddr
    \/ WordTryFrom
    \/ SerialTryFrom
    \/ DigestTryFrom
    \/ HasherUpdate
    \/ HasherFinalize

FnSpec == FnInit /\ [][FnNext]_vars

(***************************************************************************)
(* Properties of the provisioning lifecycle, of specification Spec.        *)
(***************************************************************************)
Min(a, b) == IF a < b THEN a ELSE b

IsPrefix(s, t) == Len(s) <= Len(t) /\ SubSeq(t, 1, Len(s)) = s

\* the commands of a transaction log
Cmds(log) == [k \in 1..Len(log) |-> log[k].cmd]

\* the ten Config writes of a full provisioning, spelled out: eight SlotConfig
\* words at byte indices 20, 24, ..., 48, the chip options, the KeyConfig block
ExpectedWrites ==
    << Cmd("Write", "Config", "Word", 0, 5, << \h85, \h00, \h82, \h00 >>),
       Cmd("Write", "Config", "Word", 0, 6, << \h85, \h20, \h85, \h20 >>),
       Cmd("Write", "Config", "Word", 0, 7, << \h85, \h20, \h8f, \h8f >>),
       Cmd("Write", "Config", "Word", 1, 0, << \h8f, \h0f, \haf, \h8f >>),
       Cmd("Write", "Config", "Word", 1, 1, << \h0f, \h0f, \h8f, \h0f >>),
       Cmd("Write", "Config", "Word", 1, 2, << \h0f, \h8f, \h0f, \h8f >>),
       Cmd("Write", "Config", "Word", 1, 3, << \h0f, \h8f, \h00, \h00 >>),
       Cmd("Write", "Config", "Word", 1, 4, << \h00, \h00, \haf, \h8f >>),
       Cmd("Write", "Config", "Word", 2, 6, << \hff, \hff, \h60, \h0e >>),
       Cmd("Write", "Config", "Block", 3, 0, TNG_TLS_KEY_CONFIG_DATA) >>

\* what a run that finds Config Unlocked issues for the Config zone, in order
ExpectedConfigRun == <<IsLockedCmd("Config")>> \o ExpectedWrites \o <<LockCmd("Config")>>

\* the log positions holding a write, and those holding the Config lock
WriteAt(log) == {k \in 1..Len(log) : log[k].cmd.op = "Write"}
ConfigLockAt(log) == {k \in 1..Len(log) : log[k].cmd = LockCmd("Config")}
DataAt(log) == {k \in 1..Len(log) : log[k].cmd.zone = "Data"}

\* the last operation was a try_from whose Config query answered
Answered(log) == Len(log) >= 1 /\ log[1].cmd = IsLockedCmd("Config") /\ log[1].ok

\* C1: a try_from against a device whose Config zone is already Locked issues
\* no write command and no Config lock command, at every invocation.
C1_LockedConfigNoWrites ==
    (op = "try_from" /\ pre["Config"]) =>
        /\ WriteAt(bus) = {}
        /\ ConfigLockAt(bus) = {}

\* C1 witness: a second or later try_from that found Config Locked and returned Ok
C1_Witness ==
    /\ op = "try_from" /\ prev.op = "try_from" /\ inits >= 2
    /\ pre["Config"] /\ Answered(bus) /\ result = "Ok"

\* C2: a try_from that finds Config Unlocked issues the SlotConfig writes, the
\* chip-options write, the KeyConfig write and the Config lock in this order;
\* the Config lock is issued only after every one of the writes succeeded.
C2_ProvisioningOrder ==
    (op = "try_from" /\ Answered(bus) /\ ~pre["Config"]) =>
        /\ IsPrefix(Cmds(SubSeq(bus, 1, Min(Len(bus), Len(ExpectedConfigRun)))),
                    ExpectedConfigRun)
        /\ \A k \in ConfigLockAt(bus) :
              /\ k = Len(ExpectedWrites) + 2
              /\ \A j \in 2..(k - 1) : bus[j].cmd = ExpectedWrites[j - 1] /\ bus[j].ok
        /\ \A k \in WriteAt(bus) : k <= Len(ExpectedWrites) + 1

\* C2 witness: a run that found Config Unlocked, wrote everything and locked it
C2_Witness ==
    /\ op = "try_from" /\ Answered(bus) /\ ~pre["Config"]
    /\ ConfigLockAt(bus) # {} /\ dev["Config"] /\ result = "Ok"

\* a try_from run ended at a failed write
WriteFailed(o, res, log) ==
    /\ o = "try_from" /\ res = "Err"
    /\ Len(log) >= 1 /\ log[Len(log)].cmd.op = "Write" /\ ~log[Len(log)].ok

\* C3: a try_from in which a write fails returns the error and leaves Config
\* Unlocked, and the next try_from, once its query is answered, issues the
\* same writes with the same data starting from the first SlotConfig word.
C3_FailedWriteRestarts ==
    /\ \A k \in WriteAt(bus) :
          (op = "try_from" /\ ~bus[k].ok) =>
              /\ result = "Err" /\ k = Len(bus)
              /\ ~dev["Config"] /\ ConfigLockAt(bus) = {}
    /\ (WriteFailed(prev.op, prev.result, prev.bus) /\ op = "try_from") =>
          /\ ~pre["Config"]
          /\ Answered(bus) =>
                /\ Len(bus) >= 2 /\ bus[2].cmd = ExpectedWrites[1]
                /\ IsPrefix(Cmds(SubSeq(bus, 1, Min(Len(bus), Len(ExpectedConfigRun)))),
                            ExpectedConfigRun)
                /\ \A k \in WriteAt(bus) \cap WriteAt(prev.bus) : bus[k].cmd = prev.bus[k].cmd
                /\ (\A k \in 1..Len(bus) : bus[k].ok) =>
                      Cmds(SubSeq(bus, 1, Len(ExpectedConfigRun))) = ExpectedConfigRun

\* C3 witness: a run failed between the SlotConfig and the KeyConfig writes and
\* the next run wrote both tables again and locked Config
C3_Witness ==
    /\ WriteFailed(prev.op, prev.result, prev.bus)
    /\ Len(prev.bus) = Len(ExpectedWrites) + 1
    /\ op = "try_from" /\ result = "Ok" /\ ConfigLockAt(bus) # {}
    /\ Cardinality(WriteAt(bus)) = Len(ExpectedWrites)

\* C4: a zone that is Locked stays Locked: no step of the software takes a
\* zone, on the device or as reported to the client, from Locked to Unlocked.
C4_LockIsPermanent ==
    [][\A z \in Zones : /\ dev[z] => dev'[z]
                        /\ rep[z] = "Locked" => rep'[z] = "Locked"]_vars

\* C4 witness: operations ran on a device whose two zones were already Locked
C4_Witness ==
    /\ pre["Config"] /\ pre["Data"] /\ dev["Config"] /\ dev["Data"]
    /\ op = "configure_permissions" /\ prev.op = "try_from"

\* C5: configure_permissions, configure_chip_options and configure_key_types
\* on a TrustAndGo whose Config zone is Locked return an error and send no
\* command to the transport.
C5_LockedWriteFailsLocally ==
    (op \in {"configure_permissions", "configure_chip_options", "configure_key_types"}
        /\ pre["Config"]) =>
        /\ result = "Err"
        /\ bus = <<>>

\* C5 witness: each of the three methods was called on a Locked Config zone
C5_Witness ==
    /\ op = "configure_key_types" /\ prev.op = "configure_chip_options"
    /\ pre["Config"] /\ rep["Config"] = "Locked" /\ result = "Err"

\* C6: the Data zone is queried or locked only after Config reported Locked or
\* was locked successfully in the same run; Data Locked implies Config Locked;
\* after a failed Config lock nothing more is issued.
C6_DataAfterConfig ==
    /\ dev["Data"] => dev["Config"]
    /\ op = "try_from" =>
          /\ \A k \in DataAt(bus) :
                \/ Answered(bus) /\ pre["Config"]
                \/ \E j \in ConfigLockAt(bus) : j < k /\ bus[j].ok
          /\ \A j \in ConfigLockAt(bus) : ~bus[j].ok => (j = Len(bus) /\ result = "Err")

\* C6 witness: a release build locked Config and then Data in one run
C6_Witness ==
    /\ op = "try_from" /\ result = "Ok" /\ ~pre["Config"] /\ ~pre["Data"]
    /\ ConfigLockAt(bus) # {} /\ dev["Data"] /\ dev["Config"]
    /\ bus[Len(bus)].cmd = LockCmd("Data")

(***************************************************************************)
(* Properties of the command constructors, of specification CmdSpec.      *)
(***************************************************************************)
\* the constructor of the chosen call has returned
Returned == ret # NoRet

\* the frame of a built packet: the packet without its word address, count first
Frame(r) == Tail(r.packet)

\* the data bytes of a frame: between the five header bytes and the checksum
FrameData(f) == SubSeq(f, 6, Len(f) - 2)

AesOps == {"Aes.encrypt", "Aes.decrypt"}

\* C7: on a private-key-capable slot, Aes.encrypt and Aes.decrypt accept a
\* payload of exactly 16 bytes and reject every other length with InvalidSize.
C7_AesRejectsNon16 ==
    (Returned /\ call.op \in AesOps /\ is_private_key(call.slot)) =>
        ret.kind = (IF Len(call.data) = 16 THEN "Ok" ELSE "InvalidSize")

\* C8: Aes.encrypt and Aes.decrypt return BadParam for every slot that is not
\* private-key-capable, whatever the payload length; a frame they build
\* carries mode 0x00 for encrypt and 0x01 for decrypt, and the slot number
\* as param2.
C8_AesSlotAndMode ==
    (Returned /\ call.op \in AesOps) =>
        /\ ~is_private_key(call.slot) => ret.kind = "BadParam"
        /\ ret.kind = "Ok" =>
              /\ is_private_key(call.slot)
              /\ Frame(ret)[2] = \h51
              /\ Frame(ret)[3] = (IF call.op = "Aes.encrypt" THEN \h00 ELSE \h01)
              /\ Frame(ret)[4] = call.slot /\ Frame(ret)[5] = 0

\* C8 witness: Aes.encrypt on the AES key slot 0x09 (not private-key-capable)
\* with a payload of a wrong size returned BadParam
C8_Witness ==
    /\ Returned /\ call.op = "Aes.encrypt" /\ call.slot = 9
    /\ Len(call.data) = 17 /\ ret.kind = "BadParam"

\* C9: Sha.update rejects every payload of 64 bytes or more with InvalidSize
\* and builds, for every payload of 0 to 63 bytes, a frame with the Sha
\* opcode, mode 0x01 and the payload.
C9_ShaUpdateSize ==
    (Returned /\ call.op = "Sha.update") =>
        IF Len(call.data) >= 64 THEN ret.kind = "InvalidSize"
        ELSE /\ ret.kind = "Ok"
             /\ Frame(ret)[2] = \h47 /\ Frame(ret)[3] = \h01
             /\ FrameData(Frame(ret)) = call.data

\* the opcode, mode and param2 each constructor hands to its builder
ExpectedHeader(c) ==
    CASE c.op = "Sha.start"   -> << \h47, \h00, 0, 0 >>
      [] c.op = "Sha.update"  -> << \h47, \h01, 0, 0 >>
      [] c.op = "Sha.end"     -> << \h47, \h02, 0, 0 >>
      [] c.op = "Aes.encrypt" -> << \h51, \h00, c.slot % 256, c.slot \div 256 >>
      [] c.op = "Aes.decrypt" -> << \h51, \h01, c.slot % 256, c.slot \div 256 >>
      [] c.op = "Read.slot" ->
            LET a == get_slot_addr(c.slot, c.block, c.blocks).value
            IN << \h02, Zone_encode("Data", "Block"), a % 256, a \div 256 >>
      [] c.op = "Read.register" ->
            LET a == get_addr(c.block, c.offset).value
            IN << \h02, Zone_encode(c.zone, c.size), a % 256, a \div 256 >>

\* C10: in every frame built, the count byte is the length of the whole frame,
\* itself and the two checksum bytes included (7 + the length of the data),
\* and is followed by the opcode, the mode and param2 as two little-endian
\* bytes; Sha.start yields count 0x07, opcode 0x47, mode 0x00, param2 0x00 0x00.
C10_FrameHeader ==
    (Returned /\ ret.kind = "Ok") =>
        LET f == Frame(ret)
        IN /\ Len(f) >= 7
           /\ f[1] = Len(f)
           /\ f[1] = 7 + Len(FrameData(f))
           /\ SubSeq(f, 2, 5) = ExpectedHeader(call)
           /\ call.op = "Sha.update" => f[1] = 7 + Len(call.data)
           /\ call.op \in AesOps => f[1] = 7 + 16
           /\ call.op = "Sha.start" => SubSeq(f, 1, 5) = << \h07, \h47, \h00, \h00, \h00 >>

\* C10 witness: Sha.start built its frame in a buffer of zeroes, as in tests::sha
C10_Witness ==
    /\ Returned /\ call.op = "Sha.start" /\ call.buf[1] = 0
    /\ ret.kind = "Ok" /\ Len(Frame(ret)) = 7

\* the local precondition of the chosen call fails: an oversize payload of
\* Sha.update, a slot that is not private-key-capable or a payload that is
\* not of 16 bytes for Aes.encrypt and Aes.decrypt, an address out of range
\* for Read.slot and Read.register
LocalPreconditionFails(c) ==
    CASE c.op = "Sha.update"    -> Len(c.data) >= 64
      [] c.op \in AesOps        -> ~is_private_key(c.slot) \/ Len(c.data) # 16
      [] c.op = "Read.slot"     -> get_slot_addr(c.slot, c.block, c.blocks).kind # "Ok"
      [] c.op = "Read.register" -> get_addr(c.block, c.offset).kind # "Ok"
      [] OTHER                  -> FALSE

\* the constructor left the caller's buffer as it was and produced no frame
Untouched == ret.buf = call.buf /\ ret.packet = <<>>

\* every constructor that returned an error left the buffer untouched
ErrorLeavesBuffer == (Returned /\ ret.kind # "Ok") => Untouched

\* C21: a constructor whose local precondition fails (Sha.update with an
\* oversize payload, Aes.encrypt or Aes.decrypt with a slot that is not
\* private-key-capable or with a payload of a wrong size, Read.slot or
\* Read.register with an address out of range) returns the error before it
\* touches the packet builder: the caller's buffer is left byte for byte as
\* it was and no frame is produced.
C21_FailureLeavesBuffer ==
    (Returned /\ LocalPreconditionFails(call)) => (ret.kind # "Ok" /\ Untouched)

(***************************************************************************)
(* Properties of the pure functions, of specification FnSpec.              *)
(***************************************************************************)
\* the opcodes with no timing table
Untimed == {"HMac", "Pause"}

\* the static table of each opcode with a published timing, by name
TimingTable ==
    [CheckMac    |-> EXEC_TIME_CHECKMAC,
     Counter     |-> EXEC_TIME_COUNTER,
     DeriveKey   |-> EXEC_TIME_DERIVE_KEY,
     Ecdh        |-> EXEC_TIME_ECDH,
     GenDig      |-> EXEC_TIME_GENDIG,
     GenKey      |-> EXEC_TIME_GENKEY,
     Info        |-> EXEC_TIME_INFO,
     Kdf         |-> EXEC_TIME_KDF,
     Lock        |-> EXEC_TIME_LOCK,
     Mac         |-> EXEC_TIME_MAC,
     Nonce       |-> EXEC_TIME_NONCE,
     PrivWrite   |-> EXEC_TIME_PRIVWRITE,
     Random      |-> EXEC_TIME_RANDOM,
     Read        |-> EXEC_TIME_READ,
     SecureBoot  |-> EXEC_TIME_SECUREBOOT,
     SelfTest    |-> EXEC_TIME_SELFTEST,
     Sha         |-> EXEC_TIME_SHA,
     Sign        |-> EXEC_TIME_SIGN,
     UpdateExtra |-> EXEC_TIME_UPDATE_EXTRA,
     Verify      |-> EXEC_TIME_VERIFY,
     Write       |-> EXEC_TIME_WRITE,
     Aes         |-> EXEC_TIME_AES]

\* C11: execution_time(opcode, divider) returns, for every opcode with a
\* timing table and every divider Zero, One, Two, the entry of that opcode's
\* three-element table at the divider's index, and returns no data exactly
\* for HMac and Pause, the opcodes without a table.
C11_ExecutionTime ==
    (Returned /\ call.op = "OpCode.execution_time") =>
        /\ DOMAIN TimingTable = OpCodes \ Untimed
        /\ ret.kind = "None" <=> call.opcode \in Untimed
        /\ call.opcode \notin Untimed =>
              /\ Len(TimingTable[call.opcode]) = 3
              /\ ret = Some(TimingTable[call.opcode][call.div + 1])

\* C11 witness: the slowest entry, SelfTest at divider Two, and an opcode
\* without a table are both looked up
C11_Witness ==
    /\ Returned /\ call.op = "OpCode.execution_time"
    /\ \/ call.opcode = "SelfTest" /\ call.div = 2 /\ ret = Some(2324)
       \/ call.opcode = "Pause" /\ ret = None

\* the SlotConfig words of the two copies of the table, per slot
ShippedSlotConfig(slot) ==
    {permission(slot), from_le_bytes(Chunk(SLOT_CONFIG_DATA, 2, slot))}

\* bit n of a word
Bit(x, n) == (x \div (2 ^ n)) % 2

\* C12: in the shipped SlotConfig table, for each of the 16 slots, bit 6
\* (encrypt-read) set implies bit 7 (is-secret) set, and read_permission
\* never reaches its prohibited arm for a provisioned slot.
C12_EncryptReadImpliesSecret ==
    (Returned /\ call.op = "Provision.read_permission") =>
        /\ \A w \in ShippedSlotConfig(call.key_id) : Bit(w, 6) = 1 => Bit(w, 7) = 1
        /\ ret.kind = "Ok"
        /\ ret.value \in {"Clear text", "Never", "Encrypted"}
        /\ ret.value = "Encrypted" <=> Bit(permission(call.key_id), 6) = 1
        /\ ret.value = "Clear text" <=> Bit(permission(call.key_id), 7) = 0

\* C12 witness: read_permission classified a secret slot (0x0f) and a clear
\* slot (0x0c) of the table
C12_Witness ==
    /\ Returned /\ call.op = "Provision.read_permission"
    /\ \/ call.key_id = 15 /\ ret = Value("Never")
       \/ call.key_id = 12 /\ ret = Value("Clear text")

\* the decoding of slot 0x00 with the internal-signature bit as given
Slot0Decode(internal) ==
    /\ (Returned /\ call.op = "Provision.new" /\ call.key_id = 0) =>
          /\ Chunk(TNG_TLS_SLOT_CONFIG_DATA, 2, 0) = << \h85, \h00 >>
          /\ Chunk(TNG_TLS_KEY_CONFIG_DATA, 2, 0) = << \h53, \h00 >>
          /\ ret.value.read_key = \h05
          /\ Bit(ret.value.read_key, 0) = 1
          /\ Bit(ret.value.read_key, 1) = internal
          /\ ret.value.is_private = TRUE
          /\ ret.value.key_type = 4
    /\ (Returned /\ call.op = "slot_config.print") =>
          /\ ret.value[1].word = \h85
          /\ ret.value[1].read_key.read_key = \h05
          /\ ret.value[1].read_key.external_sign
          /\ ret.value[1].read_key.internal_sign <=> internal = 1

\* C13, as the code has it: slot 0x00 decodes as SlotConfig bytes 0x85,0x00
\* giving read-key 0x05 with the external-signature bit (bit 0) set and the
\* internal-signature bit (bit 1) clear; KeyConfig bytes 0x53,0x00 giving
\* private = true and key-type = P256 (4).
C13_Slot0Decode == Slot0Decode(0)

\* C13 as stated: the same with the internal-signature bit (bit 1) set.
C13_Slot0Decode_Stated == Slot0Decode(1)

\* C13 witness: the accessors of Provision were read for slot 0x00
C13_Witness ==
    /\ Returned /\ call.op = "Provision.new" /\ call.key_id = 0
    /\ ret.value.read_key = 5 /\ ret.value.is_private

\* the decoding of slot 0x09 with encrypt-read as given
Slot9Decode(encrypted) ==
    /\ (Returned /\ call.op = "Provision.new" /\ call.key_id = 9) =>
          /\ Chunk(TNG_TLS_SLOT_CONFIG_DATA, 2, 9) = << \h8f, \h0f >>
          /\ ret.value.is_secret = TRUE
          /\ ret.value.encrypt_read = encrypted
          /\ ret.value.write_config = \h00
    /\ (Returned /\ call.op = "Provision.read_permission" /\ call.key_id = 9) =>
          ret = Value(IF encrypted THEN "Encrypted" ELSE "Never")
    /\ (Returned /\ call.op = "slot_config.print") =>
          /\ ret.value[10].is_secret = 1
          /\ ret.value[10].encrypt_read = (IF encrypted THEN 1 ELSE 0)
          /\ ret.value[10].write_config = \h00

\* C14, as the code has it: slot 0x09 (AES key) of the SlotConfig table, bytes
\* 0x8f,0x0f, decodes to is-secret = true, encrypt-read = false and
\* write-config = 0x00; its read permission is Never.
C14_Slot9Decode == Slot9Decode(FALSE)

\* C14 as stated: the same with encrypt-read = true.
C14_Slot9Decode_Stated == Slot9Decode(TRUE)

\* C14 witness: the accessors of Provision were read for the AES key slot
C14_Witness ==
    /\ Returned /\ call.op = "Provision.new" /\ call.key_id = 9
    /\ ret.value.is_secret /\ ret.value.write_config = 0

RECURSIVE OrFrom(_, _)
\* the bits from p up of the bitwise or of fields, each a value and its shift
OrFrom(fields, p) ==
    IF p > 15 THEN 0
    ELSE (IF \E f \in fields : p >= f.shift /\ Bit(f.value, p - f.shift) = 1
          THEN 2 ^ p ELSE 0) + OrFrom(fields, p + 1)

\* the 16-bit word holding each field at its shift
Encode(fields) == OrFrom(fields, 0)

\* the fields of a decoded SlotConfig entry at the shifts slot_config::print
\* decoded them from
SlotConfigFields(d) ==
    {[value |-> d.read_key.read_key, shift |-> 0],
     [value |-> d.no_mac,            shift |-> 4],
     [value |-> d.limited_use,       shift |-> 5],
     [value |-> d.encrypt_read,      shift |-> 6],
     [value |-> d.is_secret,         shift |-> 7],
     [value |-> d.write_key,         shift |-> 8],
     [value |-> d.write_config,      shift |-> 12]}

\* C15: for all 16 slots, decoding the SlotConfig word into read-key (4 bits),
\* no-mac, limited-use, encrypt-read, is-secret, write-key (4 bits) and
\* write-config (4 bits) and re-encoding those fields at their bit positions
\* yields the original 16-bit value; the accessors of Provision read the
\* same fields.
C15_SlotConfigRoundTrip ==
    /\ (Returned /\ call.op = "slot_config.print") =>
          /\ Len(ret.value) = 16
          /\ \A i \in 1..16 :
                LET d == ret.value[i]
                IN /\ d.word = permission(i - 1)
                   /\ d.read_key.read_key < 16 /\ d.write_key < 16 /\ d.write_config < 16
                   /\ {d.no_mac, d.limited_use, d.encrypt_read, d.is_secret} \subseteq {0, 1}
                   /\ Encode(SlotConfigFields(d)) = d.word
    /\ (Returned /\ call.op = "Provision.new") =>
          LET d == slot_config_print[call.key_id + 1]
          IN /\ ret.value.read_key = d.read_key.read_key
             /\ ret.value.encrypt_read <=> d.encrypt_read = 1
             /\ ret.value.is_secret <=> d.is_secret = 1
             /\ ret.value.write_config = d.write_config

\* C15 witness: print decoded the table, slot 0x07 (0xaf,0x8f) with
\* limited-use set and no-mac clear among its entries
C15_Witness ==
    /\ Returned /\ call.op = "slot_config.print"
    /\ ret.value[8].word = \h8faf
    /\ ret.value[8].limited_use = 1 /\ ret.value[8].no_mac = 0

\* the fields of a decoded KeyConfig entry at the bit positions
\* key_config::print and its decoders read them from
KeyConfigFields(d) ==
    {[value |-> d.private.private,    shift |-> 1],
     [value |-> d.private.pub_info,   shift |-> 2],
     [value |-> d.key_type,           shift |-> 2],
     [value |-> d.lockable,           shift |-> 6],
     [value |-> d.req_random,         shift |-> 7],
     [value |-> d.req_auth.req_auth,  shift |-> 8],
     [value |-> IF d.req_auth.auth_key.kind = "Some"
                THEN d.req_auth.auth_key.value ELSE 0, shift |-> 7],
     [value |-> d.persistent_disable, shift |-> 13],
     [value |-> d.x509id,             shift |-> 14]}

\* C16: for all 16 slots, decoding the KeyConfig word into private, pub-info,
\* key-type, lockable, req-random, req-auth, auth-key-id, persistent-disable
\* and x509id at the bit positions the decoder uses and re-encoding those
\* fields yields the original 16-bit value.
C16_KeyConfigRoundTrip ==
    (Returned /\ call.op = "key_config.print") =>
        /\ Len(ret.value) = 16
        /\ \A i \in 1..16 :
              /\ ret.value[i].word = key_config(i - 1)
              /\ Encode(KeyConfigFields(ret.value[i])) = ret.value[i].word

\* the byte indices of the SlotConfig table, the chip options and the KeyConfig table
SlotConfigBytes == 20..51
ChipOptionsBytes == 88..91
KeyConfigBytes == 96..127

\* C17: for every byte index in 20..51 and 96..127 (and the chip options,
\* 88..91), locate_index gives a (block, offset) that the address function
\* takes back to the word containing the index; index 20 is block 0 word
\* offset 5, index 96 block 3 word offset 0, index 88 block 2 word offset 6.
C17_LocateIndexInverse ==
    (Returned /\ call.op = "Zone.locate_index") =>
        LET loc == ret.value
            addr == get_addr(loc.block, loc.offset)
        IN /\ call.index \in SlotConfigBytes \cup ChipOptionsBytes \cup KeyConfigBytes =>
                 /\ addr.kind = "Ok"
                 /\ loc.position \in 0..3
                 /\ addr.value * 4 = call.index - loc.position
                 /\ call.index \in (addr.value * 4)..(addr.value * 4 + 3)
           /\ call.index = 20 => loc.block = 0 /\ loc.offset = 5
           /\ call.index = 96 => loc.block = 3 /\ loc.offset = 0
           /\ call.index = 88 => loc.block = 2 /\ loc.offset = 6

\* C17 witness: the last byte of the SlotConfig table, in the second block,
\* was located
C17_Witness ==
    /\ Returned /\ call.op = "Zone.locate_index" /\ call.index = 51
    /\ ret.value = [block |-> 1, offset |-> 4, position |-> 3]

ParseOps == {"Word.try_from", "Serial.try_from", "Digest.try_from"}

\* a response buffer that holds the serial number: bytes 0..3 and 8..12
SerialShape(buffer) == Len(buffer) >= 13

\* C18: parsing a typed result returns success or failure for every buffer
\* length and never aborts; Serial yields the 9-byte serial number for a
\* buffer of the expected shape and an error for any other; Word and Digest
\* succeed exactly for buffers of 4 and 32 bytes.
C18_TypedResultParsing ==
    (Returned /\ call.op \in ParseOps) =>
        /\ ret.kind \in {"Ok", "BadParam"}
        /\ call.op = "Word.try_from" =>
              /\ ret.kind = "Ok" <=> Len(call.buffer) = 4
              /\ ret.kind = "Ok" => ret.value = call.buffer
        /\ call.op = "Digest.try_from" =>
              /\ ret.kind = "Ok" <=> Len(call.buffer) = 32
              /\ ret.kind = "Ok" => ret.value = call.buffer
        /\ call.op = "Serial.try_from" =>
              IF SerialShape(call.buffer)
              THEN ret = Value(SubSeq(call.buffer, 1, 4) \o SubSeq(call.buffer, 9, 13))
              ELSE ret.kind = "BadParam"

HasherOps == {"Hasher.update", "Hasher.finalize_into_dirty"}

\* C20: a failure of the underlying update or finalize step is reported to
\* the caller of Hasher.update and Hasher.finalize_into_dirty as a failure
\* and never aborts the process.
C20_HasherReportsFailure ==
    (Returned /\ call.op \in HasherOps) =>
        /\ ret.kind # "Panic"
        /\ call.inner.kind # "Ok" => ret.kind = call.inner.kind

(***************************************************************************)
(* The coverage of a full provisioning run, of specification Spec.         *)
(***************************************************************************)
\* the byte index a write addresses and the bytes it covers, given its length
ByteIndex(cmd) == cmd.block * SizeBlock + cmd.offset * SizeWord
Covers(cmd, len) == ByteIndex(cmd)..(ByteIndex(cmd) + len - 1)

\* a try_from that found Config Unlocked and reached the Config lock
FullRun == op = "try_from" /\ Answered(bus) /\ ~pre["Config"] /\ ConfigLockAt(bus) # {}

\* the byte a run's writes put at a byte index of the Config zone
Written(log, index) ==
    {log[k].cmd.data[index - ByteIndex(log[k].cmd) + 1] :
        k \in {j \in WriteAt(log) : index \in Covers(log[j].cmd, Len(log[j].cmd.data))}}

\* a full run writes the whole of both tables, with the given lengths of a
\* Word and of a Block
FullCoverage(wordLen, blockLen) ==
    FullRun =>
        LET slotWrites == {k \in WriteAt(bus) : ByteIndex(bus[k].cmd) \in SlotConfigBytes}
            keyWrites == {k \in WriteAt(bus) : ByteIndex(bus[k].cmd) \in KeyConfigBytes}
        IN /\ SizeLen("Word") = wordLen /\ SizeLen("Block") = blockLen
           /\ slotWrites = 2..9
           /\ \A k \in slotWrites :
                 /\ bus[k].ok /\ bus[k].cmd.size = "Word"
                 /\ Len(bus[k].cmd.data) = wordLen
                 /\ ByteIndex(bus[k].cmd) = 20 + 4 * (k - 2)
           /\ UNION {Covers(bus[k].cmd, wordLen) : k \in slotWrites} = SlotConfigBytes
           /\ keyWrites = {11}
           /\ bus[11].ok /\ bus[11].cmd.size = "Block"
           /\ Len(bus[11].cmd.data) = blockLen
           /\ Covers(bus[11].cmd, blockLen) = KeyConfigBytes
           /\ \A slot \in Slots :
                 /\ Written(bus, 20 + 2 * slot) = {permission(slot) % 256}
                 /\ Written(bus, 21 + 2 * slot) = {permission(slot) \div 256}
                 /\ Written(bus, 96 + 2 * slot) = {key_config(slot) % 256}
                 /\ Written(bus, 97 + 2 * slot) = {key_config(slot) \div 256}

\* C19, as the code has it: a full provisioning run on an Unlocked Config
\* zone writes the SlotConfig words as consecutive Word-sized writes at byte
\* indices 20, 24, ..., 48, each once and in ascending order, covering bytes
\* 20..51 for all 16 slots, and the KeyConfig write covers bytes 96..127 for
\* all 16 slots, with Size Word = 4 bytes and Size Block = 32 bytes.
C19_FullCoverage == FullCoverage(4, 32)

\* C19 as stated: the same with Size Block = 16 bytes.
C19_FullCoverage_Stated == FullCoverage(4, 16)

\* C19 witness: a run wrote the ten words and blocks and locked Config
C19_Witness ==
    /\ FullRun /\ bus[Len(ExpectedWrites) + 2].ok
    /\ Cardinality(WriteAt(bus)) = 10 /\ dev["Config"]

=============================================================================
